---- MODULE Spec2Model ----
(***************************************************************************)
(* gtsam/geometry/TriangulationFactor.h                                    *)
(*                                                                         *)
(* A unary nonlinear factor on a Point3: a fixed camera, a fixed 2D        *)
(* measurement, two cheirality flags and three mutable scratch buffers     *)
(* (Ab, A, b) used by linearize.                                           *)
(*                                                                         *)
(* Numbers are exact rationals <<n, d>> (d > 0, lowest terms), so that the *)
(* pinhole division x/z and the whitening division by sigma lose nothing.  *)
(***************************************************************************)
EXTENDS Integers, Sequences, FiniteSets, TLC

----------------------------------------------------------------------------
(* Bounds of the model *)

MaxFx == 2
MaxSigma == 2
MaxZ == 2

----------------------------------------------------------------------------
(* Exact rational arithmetic *)

Abs(n) == IF n < 0 THEN -n ELSE n

RECURSIVE GCD(_, _)
GCD(a, b) == IF b = 0 THEN a ELSE GCD(b, a % b)

\* the rational n/d (d > 0) in lowest terms
Rat(n, d) == LET g == GCD(Abs(n), d) IN <<n \div g, d \div g>>

RInt(n) == <<n, 1>>
RZero == RInt(0)
RNeg(r) == <<-r[1], r[2]>>
RSub(r, s) == Rat(r[1] * s[2] - s[1] * r[2], r[2] * s[2])
RDivInt(r, k) == Rat(r[1], r[2] * k)

\* vectors are sequences of rationals, matrices sequences of rows
VSub(v, w) == [i \in DOMAIN v |-> RSub(v[i], w[i])]
VNeg(v) == [i \in DOMAIN v |-> RNeg(v[i])]
VDivInt(v, k) == [i \in DOMAIN v |-> RDivInt(v[i], k)]
MDivInt(M, k) == [i \in DOMAIN M |-> VDivInt(M[i], k)]
Rows(M) == Len(M)
Cols(M) == IF Len(M) = 0 THEN 0 ELSE Len(M[1])

\* Z_2x3
Z_2x3 == <<<<RZero, RZero, RZero>>, <<RZero, RZero, RZero>>>>
\* ones(2) * s
Ones2Times(s) == <<s, s>>

----------------------------------------------------------------------------
(* Collaborators: camera, noise model, values *)

Keys == {"l1", "l2"}

\* Point3 candidates: in front of the camera (z > 0) and behind it (z < 0);
\* z = 0, on the camera plane, is left out
Points == {<<x, 1 - x, z>> : x \in {0, 1}, z \in {-1} \cup (1..MaxZ)}

\* cameras at the origin looking down +z, calibration fx = fy, no skew,
\* principal point (0,0)
Cameras == {[fx |-> f] : f \in 1..MaxFx}

Measurements == {<<RInt(m), RZero>> : m \in {0, 1}}

\* SharedNoiseModel: a null pointer, or an isotropic model of some dimension
NullModel == [isNull |-> TRUE, dim |-> 0, sigma |-> 1]
NoiseModels ==
  {NullModel} \cup {[isNull |-> FALSE, dim |-> d, sigma |-> s] : d \in {2, 3}, s \in 2..MaxSigma}

\* PinholeCamera::project(point, none, Dpoint, none): the pixel and the 2x3
\* derivative with respect to the point, or a CheiralityException
project(camera, point) ==
  LET x == point[1]
      y == point[2]
      z == point[3]
      f == camera.fx
  IN IF z <= 0
       THEN [ok |-> FALSE, pixel |-> <<>>, Dpoint |-> <<>>]
       ELSE [ok |-> TRUE,
             pixel |-> <<Rat(f * x, z), Rat(f * y, z)>>,
             Dpoint |-> <<<<Rat(f, z), RZero, Rat(-(f * x), z * z)>>,
                          <<RZero, Rat(f, z), Rat(-(f * y), z * z)>>>>]

\* noiseModel_->WhitenSystem(A, b): both scaled by 1/sigma
WhitenSystem(model, A, b) == [A |-> MDivInt(A, model.sigma), b |-> VDivInt(b, model.sigma)]

\* Values: a partial map from keys to Point3
ValuesStores == {<<>>} \cup {[k \in {key} |-> p] : key \in Keys, p \in Points}

\* contents of freshly allocated, not yet written, storage
JunkVals == {RZero, RInt(-1)}

Instances == {"orig", "copy"}

----------------------------------------------------------------------------
(* The factor: immutable members and scratch memory *)

\* default-constructed VerticalBlockMatrix, Matrix and Vector
EmptyScratch == [Ab |-> [dims |-> <<>>, matrix |-> <<>>], A |-> <<>>, b |-> <<>>]

NoFactor ==
  [exists |-> FALSE, camera |-> [fx |-> 1], measured |-> <<RZero, RZero>>,
   noiseModel |-> NullModel, key |-> "l1",
   throwCheirality |-> FALSE, verboseCheirality |-> FALSE]

NullJacobianFactor == [isNull |-> TRUE, keys |-> <<>>, Ab |-> EmptyScratch.Ab]

\* mutant of Constructor: the dimension of the noise model is not checked
ConstructorUnchecked(camera, measured, model, pointKey, throwC, verboseC) ==
  [ok |-> TRUE, exc |-> "",
   f |-> [exists |-> TRUE, camera |-> camera, measured |-> measured,
          noiseModel |-> model, key |-> pointKey,
          throwCheirality |-> throwC, verboseCheirality |-> verboseC]]

\* TriangulationFactor(camera, measured, model, pointKey, throwCheirality,
\* verboseCheirality)
Constructor(camera, measured, model, pointKey, throwC, verboseC) ==
  IF ~model.isNull /\ model.dim # 2
    THEN [ok |-> FALSE, exc |-> "invalid_argument", f |-> NoFactor]
    ELSE [ok |-> TRUE, exc |-> "",
          f |-> [exists |-> TRUE, camera |-> camera, measured |-> measured,
                 noiseModel |-> model, key |-> pointKey,
                 throwCheirality |-> throwC, verboseCheirality |-> verboseC]]

\* new This(*this): the memberwise copy of the immutable members
clone(f) ==
  [exists |-> TRUE, camera |-> f.camera, measured |-> f.measured,
   noiseModel |-> f.noiseModel, key |-> f.key,
   throwCheirality |-> f.throwCheirality,
   verboseCheirality |-> f.verboseCheirality]

\* mutant of ScratchOf: one storage for all instances, as if Ab, A, b were
\* static or shared by the copy
ScratchOfShared(i) == "orig"

\* the storage behind the members Ab, A, b of an instance: its own
ScratchOf(i) == i

\* equals(p, tol): base (noise model and keys), camera and measurement
equals(f, g) ==
  /\ f.exists /\ g.exists
  /\ f.noiseModel = g.noiseModel /\ f.key = g.key
  /\ f.camera = g.camera
  /\ f.measured = g.measured

\* mutant of cheiralityFallback: the factor 2.0 is lost
cheiralityFallbackUnscaled(f) == Ones2Times(RInt(f.camera.fx))

\* ones(2) * 2.0 * camera_.calibration().fx()
cheiralityFallback(f) == Ones2Times(RInt(2 * f.camera.fx))

\* mutant of catchCheirality: the rethrow comes first, before H2 is zeroed
\* and before the message is printed
catchCheiralityThrowFirst(f, wantH) ==
  IF f.throwCheirality
    THEN [outcome |-> "throw", exc |-> "CheiralityException", value |-> <<>>,
          H |-> <<>>, events |-> <<"project", "catch", "throw">>]
    ELSE [outcome |-> "return", exc |-> "",
          value |-> Ones2Times(RInt(2 * f.camera.fx)),
          H |-> IF wantH THEN Z_2x3 ELSE <<>>,
          events |-> <<"project", "catch">>
                     \o (IF wantH THEN <<"zeroH">> ELSE <<>>)
                     \o (IF f.verboseCheirality THEN <<"print">> ELSE <<>>)
                     \o <<"return">>]

\* the catch block of evaluateError: zero H2 if given, print if verbose,
\* rethrow if throwCheirality_, else return the fallback
catchCheirality(f, wantH) ==
  [outcome |-> IF f.throwCheirality THEN "throw" ELSE "return",
   exc |-> IF f.throwCheirality THEN "CheiralityException" ELSE "",
   value |-> IF f.throwCheirality THEN <<>> ELSE cheiralityFallback(f),
   H |-> IF wantH THEN Z_2x3 ELSE <<>>,
   events |-> <<"project", "catch">>
              \o (IF wantH THEN <<"zeroH">> ELSE <<>>)
              \o (IF f.verboseCheirality THEN <<"print">> ELSE <<>>)
              \o (IF f.throwCheirality THEN <<"throw">> ELSE <<"return">>)]

\* the try block of evaluateError, pr being what project did
tryProject(f, wantH, pr) ==
  IF pr.ok
    THEN [outcome |-> "return", exc |-> "",
          value |-> VSub(pr.pixel, f.measured),
          H |-> IF wantH THEN pr.Dpoint ELSE <<>>,
          events |-> <<"project", "return">>]
    ELSE catchCheirality(f, wantH)

\* evaluateError(point, H2); wantH says whether H2 was given
evaluateError(f, point, wantH) == tryProject(f, wantH, project(f.camera, point))

----------------------------------------------------------------------------
(* linearize, statement by statement, on the scratch memory s of a factor f *)

\* mutant of NeedsAllocation: the buffers are allocated on every call
NeedsAllocationAlways(s) == TRUE

\* Ab.rows() == 0
NeedsAllocation(s) == Rows(s.Ab.matrix) = 0

\* Ab = VerticalBlockMatrix(dimensions, 2, true); A.resize(2,3); b.resize(2)
\* (the new storage is not initialised: every entry reads as junk)
Allocate(s, junk) ==
  [Ab |-> [dims |-> <<3, 1>>,
           matrix |-> [i \in 1..2 |-> [j \in 1..4 |-> junk]]],
   A |-> [i \in 1..2 |-> [j \in 1..3 |-> junk]],
   b |-> [i \in 1..2 |-> junk]]

\* x.at<Point3>(key())
HasKey(f, x) == f.key \in DOMAIN x

\* camera_.project(point, none, A, none) writes the Jacobian into A
StoreJacobian(s, pr) == [s EXCEPT !.A = pr.Dpoint]

\* mutant of Assignb: the sign is not flipped
AssignbUnnegated(f, s, pixel) == [s EXCEPT !.b = VSub(pixel, f.measured)]

\* b = -(projected - measured_).vector()
Assignb(f, s, pixel) == [s EXCEPT !.b = VNeg(VSub(pixel, f.measured))]

\* if (noiseModel_) noiseModel_->WhitenSystem(A, b)
Whiten(f, s) ==
  IF f.noiseModel.isNull
    THEN s
    ELSE LET w == WhitenSystem(f.noiseModel, s.A, s.b)
         IN [s EXCEPT !.A = w.A, !.b = w.b]

\* Ab(0) = A
SetAb0(s) ==
  [s EXCEPT !.Ab.matrix =
     [i \in 1..Rows(s.Ab.matrix) |->
        [j \in 1..Cols(s.Ab.matrix) |->
           IF j <= 3 THEN s.A[i][j] ELSE s.Ab.matrix[i][j]]]]

\* mutant of SetAb1: the right-hand side keeps what an earlier call left
SetAb1Stale(s) == s

\* Ab(1) = b
SetAb1(s) ==
  [s EXCEPT !.Ab.matrix =
     [i \in 1..Rows(s.Ab.matrix) |->
        [j \in 1..Cols(s.Ab.matrix) |->
           IF j = 4 THEN s.b[i] ELSE s.Ab.matrix[i][j]]]]

\* boost::make_shared<JacobianFactor>(this->keys_, Ab): a copy of Ab
MakeJacobianFactor(f, s) == [isNull |-> FALSE, keys |-> <<f.key>>, Ab |-> s.Ab]

\* the blocks of a JacobianFactor
getA(jf) == [i \in 1..Rows(jf.Ab.matrix) |-> SubSeq(jf.Ab.matrix[i], 1, 3)]
getb(jf) == [i \in 1..Rows(jf.Ab.matrix) |-> jf.Ab.matrix[i][4]]

\* linearize(x), its return: the JacobianFactor built from the filled Ab
linearizePack(f, s4, ev) ==
  [outcome |-> "return", exc |-> "",
   result |-> MakeJacobianFactor(f, s4), s |-> s4,
   events |-> ev \o (IF f.noiseModel.isNull THEN <<>> ELSE <<"whiten">>) \o <<"pack">>]

\* linearize(x) from line 158 on, pr being what project did: a
\* CheiralityException is not caught here
linearizeProjected(f, s1, ev, pr) ==
  IF ~pr.ok
    THEN [outcome |-> "throw", exc |-> "CheiralityException",
          result |-> NullJacobianFactor, s |-> s1, events |-> ev]
    ELSE linearizePack(f,
           SetAb1(SetAb0(Whiten(f, Assignb(f, StoreJacobian(s1, pr), pr.pixel)))), ev)

\* mutant of linearizeAt: a missing key gives the empty result
linearizeAtLenient(f, s1, ev, x) ==
  IF ~HasKey(f, x)
    THEN [outcome |-> "return", exc |-> "", result |-> NullJacobianFactor,
          s |-> s1, events |-> ev]
    ELSE linearizeProjected(f, s1, ev \o <<"project">>, project(f.camera, x[f.key]))

\* linearize(x) from line 157 on: the lookup of the point, then the projection
linearizeAt(f, s1, ev, x) ==
  IF ~HasKey(f, x)
    THEN [outcome |-> "throw", exc |-> "ValuesKeyDoesNotExist",
          result |-> NullJacobianFactor, s |-> s1, events |-> ev]
    ELSE linearizeProjected(f, s1, ev \o <<"project">>, project(f.camera, x[f.key]))

\* mutant of linearize: the buffers are allocated before the activity check
linearizeAllocFirst(f, s, x, isActive, junk) ==
  IF ~isActive
    THEN [outcome |-> "return", exc |-> "", result |-> NullJacobianFactor,
          s |-> IF NeedsAllocation(s) THEN Allocate(s, junk) ELSE s,
          events |-> <<"active">>]
    ELSE IF NeedsAllocation(s)
           THEN linearizeAt(f, Allocate(s, junk), <<"active", "alloc", "at">>, x)
           ELSE linearizeAt(f, s, <<"active", "at">>, x)

\* linearize(x), one whole call; isActive is what this->active(x) answers
linearize(f, s, x, isActive, junk) ==
  IF ~isActive
    THEN [outcome |-> "return", exc |-> "", result |-> NullJacobianFactor,
          s |-> s, events |-> <<"active">>]
    ELSE IF NeedsAllocation(s)
           THEN linearizeAt(f, Allocate(s, junk), <<"active", "alloc", "at">>, x)
           ELSE linearizeAt(f, s, <<"active", "at">>, x)

----------------------------------------------------------------------------
(* Sequential use: one call at a time *)

VARIABLES factor, scratch, last, threads

vars == <<factor, scratch, last, threads>>

Threads == {"t1", "t2"}

\* a thread that is not inside linearize
IdleThread ==
  [pc |-> "idle", inst |-> "orig", x |-> <<>>, pixel |-> <<>>,
   outcome |-> "none", exc |-> "", result |-> NullJacobianFactor, raced |-> FALSE]

NoCall ==
  [op |-> "none", inst |-> "orig", point |-> <<>>, wantH |-> FALSE,
   x |-> <<>>, isActive |-> FALSE, model |-> NullModel,
   outcome |-> "none", exc |-> "", value |-> <<>>, H |-> <<>>,
   result |-> NullJacobianFactor, events |-> <<>>]

Init ==
  /\ factor = [i \in Instances |-> NoFactor]
  /\ scratch = [i \in Instances |-> EmptyScratch]
  /\ last = NoCall
  /\ threads = [t \in Threads |-> IdleThread]

Construct ==
  \E camera \in Cameras, measured \in Measurements, model \in NoiseModels,
     pointKey \in Keys, throwC \in BOOLEAN, verboseC \in BOOLEAN :
    LET c == Constructor(camera, measured, model, pointKey, throwC, verboseC)
    IN /\ ~factor["orig"].exists
       /\ factor' = IF c.ok THEN [factor EXCEPT !["orig"] = c.f] ELSE factor
       /\ last' = [NoCall EXCEPT !.op = "construct", !.model = model,
                                 !.outcome = IF c.ok THEN "return" ELSE "throw",
                                 !.exc = c.exc]
       /\ UNCHANGED <<scratch, threads>>

Clone ==
  /\ factor["orig"].exists
  /\ ~factor["copy"].exists
  /\ factor' = [factor EXCEPT !["copy"] = clone(factor["orig"])]
  /\ scratch' = [scratch EXCEPT ![ScratchOf("copy")] = scratch[ScratchOf("orig")]]
  /\ last' = [NoCall EXCEPT !.op = "clone", !.inst = "copy", !.outcome = "return"]
  /\ UNCHANGED threads

Evaluate(i) ==
  \E point \in Points, wantH \in BOOLEAN :
    \E r \in {evaluateError(factor[i], point, wantH)} :
       /\ factor[i].exists
       /\ last' = [NoCall EXCEPT !.op = "evaluateError", !.inst = i,
                                 !.point = point, !.wantH = wantH,
                                 !.outcome = r.outcome, !.exc = r.exc,
                                 !.value = r.value, !.H = r.H,
                                 !.events = r.events]
       /\ UNCHANGED <<factor, scratch, threads>>

Linearize(i) ==
  \E x \in ValuesStores, isActive \in BOOLEAN :
    \E junk \in IF isActive /\ NeedsAllocation(scratch[ScratchOf(i)])
                  THEN JunkVals ELSE {RZero} :
      \E r \in {linearize(factor[i], scratch[ScratchOf(i)], x, isActive, junk)} :
         /\ factor[i].exists
         /\ scratch' = [scratch EXCEPT ![ScratchOf(i)] = r.s]
         /\ last' = [NoCall EXCEPT !.op = "linearize", !.inst = i, !.x = x,
                                   !.isActive = isActive,
                                   !.outcome = r.outcome, !.exc = r.exc,
                                   !.result = r.result, !.events = r.events]
         /\ UNCHANGED <<factor, threads>>

\* construction followed by evaluations
Next == Construct \/ Evaluate("orig")

Spec == Init /\ [][Next]_vars

\* a constructed factor, evaluated and linearized
InitLin ==
  /\ \E camera \in Cameras, measured \in Measurements, model \in NoiseModels,
        pointKey \in Keys, throwC \in BOOLEAN :
       LET c == Constructor(camera, measured, model, pointKey, throwC, FALSE)
       IN /\ c.ok
          /\ factor = [i \in Instances |-> IF i = "orig" THEN c.f ELSE NoFactor]
  /\ scratch = [i \in Instances |-> EmptyScratch]
  /\ last = NoCall
  /\ threads = [t \in Threads |-> IdleThread]

NextLin == Evaluate("orig") \/ Linearize("orig")

SpecLin == InitLin /\ [][NextLin]_vars

\* a constructed factor and its clone, both linearized
InitClone ==
  /\ \E model \in NoiseModels, throwC \in BOOLEAN :
       LET c == Constructor([fx |-> MaxFx], <<RInt(1), RZero>>, model, "l2", throwC, TRUE)
       IN /\ c.ok
          /\ factor = [i \in Instances |-> IF i = "orig" THEN c.f ELSE NoFactor]
  /\ scratch = [i \in Instances |-> EmptyScratch]
  /\ last = NoCall
  /\ threads = [t \in Threads |-> IdleThread]

NextClone == Clone \/ \E i \in Instances : Linearize(i)

SpecClone == InitClone /\ [][NextClone]_vars

----------------------------------------------------------------------------
(* Concurrent use: threads inside linearize, one statement at a time.       *)
(* Unsynchronised calls on one instance are a data race; its outcomes are   *)
(* taken to be those of the interleavings of the statements.                *)

\* stores given to the concurrent calls
ConcStores ==
  {<<>>} \cup {[k \in {"l2"} |-> p] : p \in Points}

\* a factor and its clone, no call made yet; each thread makes one call
InitConc ==
  /\ \E model \in NoiseModels :
       LET c == Constructor([fx |-> MaxFx], <<RInt(1), RZero>>, model, "l2", FALSE, FALSE)
       IN /\ c.ok
          /\ factor = [i \in Instances |-> IF i = "orig" THEN c.f ELSE clone(c.f)]
  /\ scratch = [i \in Instances |-> EmptyScratch]
  /\ last = NoCall
  /\ threads = [t \in Threads |-> IdleThread]

InCall(th) == th.pc \notin {"idle", "done"}

MyScratch(t) == scratch[ScratchOf(threads[t].inst)]

SetScratch(t, s) == [scratch EXCEPT ![ScratchOf(threads[t].inst)] = s]

\* thread t enters linearize(x) on instance i: the activity check
TCall(t) ==
  \E i \in Instances, x \in ConcStores, isActive \in BOOLEAN :
    /\ threads[t].pc = "idle"
    /\ threads' =
         [u \in Threads |->
            IF u = t
              THEN [IdleThread EXCEPT
                      !.pc = IF isActive THEN "alloc" ELSE "done",
                      !.inst = i, !.x = x,
                      !.outcome = IF isActive THEN "none" ELSE "return",
                      !.raced = isActive /\ \E v \in Threads \ {t} :
                                   InCall(threads[v]) /\ threads[v].inst = i]
              ELSE IF isActive /\ InCall(threads[u]) /\ threads[u].inst = i
                     THEN [threads[u] EXCEPT !.raced = TRUE]
                     ELSE threads[u]]
    /\ UNCHANGED <<factor, scratch, last>>

\* if (Ab.rows() == 0) { ... }
TAlloc(t) ==
  /\ threads[t].pc = "alloc"
  /\ \E junk \in IF NeedsAllocation(MyScratch(t)) THEN JunkVals ELSE {RZero} :
       scratch' = IF NeedsAllocation(MyScratch(t))
                    THEN SetScratch(t, Allocate(MyScratch(t), junk))
                    ELSE scratch
  /\ threads' = [threads EXCEPT ![t].pc = "project"]
  /\ UNCHANGED <<factor, last>>

\* x.at<Point3>(key()) and camera_.project(point, none, A, none)
TProject(t) ==
  /\ threads[t].pc = "project"
  /\ IF ~HasKey(factor[threads[t].inst], threads[t].x)
       THEN /\ threads' = [threads EXCEPT ![t].pc = "done", ![t].outcome = "throw",
                                          ![t].exc = "ValuesKeyDoesNotExist"]
            /\ UNCHANGED scratch
       ELSE \E pr \in {project(factor[threads[t].inst].camera,
                                threads[t].x[factor[threads[t].inst].key])} :
              IF ~pr.ok
                THEN /\ threads' = [threads EXCEPT ![t].pc = "done",
                                                   ![t].outcome = "throw",
                                                   ![t].exc = "CheiralityException"]
                     /\ UNCHANGED scratch
                ELSE /\ scratch' = SetScratch(t, StoreJacobian(MyScratch(t), pr))
                     /\ threads' = [threads EXCEPT ![t].pc = "assignb",
                                                   ![t].pixel = pr.pixel]
  /\ UNCHANGED <<factor, last>>

\* b = -(projected - measured_).vector()
TAssignb(t) ==
  /\ threads[t].pc = "assignb"
  /\ scratch' = SetScratch(t, Assignb(factor[threads[t].inst], MyScratch(t),
                                      threads[t].pixel))
  /\ threads' = [threads EXCEPT ![t].pc = "whiten"]
  /\ UNCHANGED <<factor, last>>

\* if (noiseModel_) noiseModel_->WhitenSystem(A, b)
TWhiten(t) ==
  /\ threads[t].pc = "whiten"
  /\ scratch' = SetScratch(t, Whiten(factor[threads[t].inst], MyScratch(t)))
  /\ threads' = [threads EXCEPT ![t].pc = "ab0"]
  /\ UNCHANGED <<factor, last>>

\* Ab(0) = A
TSetAb0(t) ==
  /\ threads[t].pc = "ab0"
  /\ scratch' = SetScratch(t, SetAb0(MyScratch(t)))
  /\ threads' = [threads EXCEPT ![t].pc = "ab1"]
  /\ UNCHANGED <<factor, last>>

\* Ab(1) = b
TSetAb1(t) ==
  /\ threads[t].pc = "ab1"
  /\ scratch' = SetScratch(t, SetAb1(MyScratch(t)))
  /\ threads' = [threads EXCEPT ![t].pc = "return"]
  /\ UNCHANGED <<factor, last>>

\* return boost::make_shared<JacobianFactor>(this->keys_, Ab)
TReturn(t) ==
  /\ threads[t].pc = "return"
  /\ threads' = [threads EXCEPT
                   ![t].pc = "done", ![t].outcome = "return",
                   ![t].result = MakeJacobianFactor(factor[threads[t].inst], MyScratch(t))]
  /\ UNCHANGED <<factor, scratch, last>>

NextConc ==
  \E t \in Threads :
    \/ TCall(t)
    \/ TAlloc(t)
    \/ TProject(t)
    \/ TAssignb(t)
    \/ TWhiten(t)
    \/ TSetAb0(t)
    \/ TSetAb1(t)
    \/ TReturn(t)

SpecConc == InitConc /\ [][NextConc]_vars

----------------------------------------------------------------------------
(* Claims about construction and evaluateError, under Spec *)

\* the point of the last evaluateError call makes project throw
EvaluatedBehind ==
  /\ last.op = "evaluateError"
  /\ ~project(factor[last.inst].camera, last.point).ok

\* position of the first occurrence of e in the event sequence es, 0 if none
Pos(es, e) ==
  IF \E k \in DOMAIN es : es[k] = e
    THEN CHOOSE k \in DOMAIN es : es[k] = e /\ \A j \in 1..(k - 1) : es[j] # e
    ELSE 0

\* C1: with throwCheirality_ false, evaluateError on a point behind the
\* camera returns normally the vector (2 fx, 2 fx), and a requested Jacobian
\* is the zero 2x3 matrix, whether or not verboseCheirality_ is set.
C1_FallbackResidual ==
  (EvaluatedBehind /\ ~factor[last.inst].throwCheirality) =>
    /\ last.outcome = "return"
    /\ last.value = <<RInt(2 * factor[last.inst].camera.fx),
                      RInt(2 * factor[last.inst].camera.fx)>>
    /\ last.wantH => last.H = Z_2x3

C1_Witness ==
  /\ EvaluatedBehind
  /\ ~factor[last.inst].throwCheirality
  /\ factor[last.inst].verboseCheirality
  /\ factor[last.inst].camera.fx = MaxFx
  /\ last.wantH
  /\ last.outcome = "return"

\* C2: with throwCheirality_ true, evaluateError on a point behind the
\* camera returns no value: it ends by throwing the CheiralityException,
\* after a requested Jacobian was zeroed and, if verboseCheirality_ is set,
\* after the message was printed.
C2_Rethrow ==
  (EvaluatedBehind /\ factor[last.inst].throwCheirality) =>
    /\ last.outcome = "throw"
    /\ last.exc = "CheiralityException"
    /\ last.value = <<>>
    /\ last.events[Len(last.events)] = "throw"
    /\ Pos(last.events, "return") = 0
    /\ last.wantH =>
         /\ last.H = Z_2x3
         /\ 0 < Pos(last.events, "zeroH")
         /\ Pos(last.events, "zeroH") < Pos(last.events, "throw")
    /\ factor[last.inst].verboseCheirality =>
         /\ 0 < Pos(last.events, "print")
         /\ Pos(last.events, "print") < Pos(last.events, "throw")

C2_Witness ==
  /\ EvaluatedBehind
  /\ factor[last.inst].throwCheirality
  /\ factor[last.inst].verboseCheirality
  /\ last.wantH
  /\ last.outcome = "throw"

\* C4: construction with a noise model of dimension other than 2 throws
\* invalid_argument and leaves no factor; with a 2-dimensional model or no
\* model it succeeds, whatever the other arguments.
C4_Construction ==
  last.op = "construct" =>
    IF ~last.model.isNull /\ last.model.dim # 2
      THEN /\ last.outcome = "throw"
           /\ last.exc = "invalid_argument"
           /\ ~factor["orig"].exists
      ELSE /\ last.outcome = "return"
           /\ factor["orig"].exists
           /\ factor["orig"].noiseModel = last.model

C4_Witness ==
  /\ last.op = "construct"
  /\ ~last.model.isNull
  /\ last.model.dim = 3
  /\ last.outcome = "throw"
  /\ ~factor["orig"].exists

----------------------------------------------------------------------------
(* Claims about linearize on one instance, under SpecLin *)

Linearized == last.op = "linearize"

\* the store of the last linearize call holds the factor's key
StoreHasKey == factor[last.inst].key \in DOMAIN last.x

\* the store of the last linearize call holds, under the factor's key, a
\* point that makes project throw
LinearizedBehind ==
  /\ Linearized
  /\ StoreHasKey
  /\ ~project(factor[last.inst].camera, last.x[factor[last.inst].key]).ok

\* C3: with throwCheirality_ false, no evaluateError or linearize call made
\* with a point behind the camera ends with an exception.
C3_NeverAborts ==
  (~factor[last.inst].throwCheirality /\ (EvaluatedBehind \/ LinearizedBehind)) =>
    last.outcome = "return"

\* C5 as stated: linearize on a store without the factor's key throws the
\* lookup exception, whether or not the factor is active.
C5_MissingKeyAlwaysThrows ==
  (Linearized /\ ~StoreHasKey) =>
    /\ last.outcome = "throw"
    /\ last.exc = "ValuesKeyDoesNotExist"

\* C5 amended: linearize on a store without the factor's key throws the
\* lookup exception, and returns nothing, when the factor is active for the
\* store; when it is inactive the call returns the empty result.
C5_MissingKeyThrowsWhenActive ==
  (Linearized /\ ~StoreHasKey) =>
    IF last.isActive
      THEN /\ last.outcome = "throw"
           /\ last.exc = "ValuesKeyDoesNotExist"
           /\ Pos(last.events, "project") = 0
      ELSE /\ last.outcome = "return"
           /\ last.result = NullJacobianFactor

C5_Witness ==
  /\ Linearized
  /\ ~StoreHasKey
  /\ last.x # <<>>
  /\ last.isActive
  /\ last.outcome = "throw"

Allocated(s) == Rows(s.Ab.matrix) # 0

\* C6: a linearize call for which the factor is inactive, on a store that
\* holds the key, returns the empty result without projecting or
\* whitening, and leaves Ab, A and b as they were.
C6_InactiveStep ==
  (last'.op = "linearize" /\ ~last'.isActive
     /\ factor'[last'.inst].key \in DOMAIN last'.x) =>
    /\ last'.outcome = "return"
    /\ last'.result = NullJacobianFactor
    /\ Pos(last'.events, "project") = 0
    /\ Pos(last'.events, "whiten") = 0
    /\ scratch' = scratch

\* C6: every step of an inactive linearize call leaves the buffers alone
\* and returns the empty result.
C6_InactiveLeavesScratch == [][C6_InactiveStep]_vars

C6_Witness ==
  /\ Linearized
  /\ ~last.isActive
  /\ StoreHasKey
  /\ last.outcome = "return"
  /\ last.result = NullJacobianFactor
  /\ Allocated(scratch[last.inst])

\* C8: for an active factor without noise model and a point that projects,
\* the returned JacobianFactor has the factor's key as its only key, A equal
\* to the Jacobian evaluateError gives and b equal to minus the error
\* evaluateError gives, that is measured - project(point); b is zero exactly
\* when that error is zero.
C8_LinearFactor ==
  (Linearized /\ last.isActive /\ factor[last.inst].noiseModel.isNull
     /\ StoreHasKey /\ ~LinearizedBehind) =>
    \E e \in {evaluateError(factor[last.inst], last.x[factor[last.inst].key], TRUE)} :
      /\ last.outcome = "return"
      /\ ~last.result.isNull
      /\ last.result.keys = <<factor[last.inst].key>>
      /\ getA(last.result) = e.H
      /\ getb(last.result) = VNeg(e.value)
      /\ getb(last.result) =
           VSub(factor[last.inst].measured,
                project(factor[last.inst].camera, last.x[factor[last.inst].key]).pixel)
      /\ (getb(last.result) = <<RZero, RZero>>) <=> (e.value = <<RZero, RZero>>)

C8_Witness ==
  /\ Linearized /\ last.isActive /\ factor[last.inst].noiseModel.isNull
  /\ StoreHasKey /\ ~LinearizedBehind
  /\ last.outcome = "return"
  /\ getb(last.result) = <<RZero, RZero>>
  /\ getA(last.result) # Z_2x3

\* A is 2x3, b has 2 elements, Ab has 2 rows and the blocks 3 and 1
ShapeOK(s) ==
  /\ Rows(s.A) = 2 /\ Cols(s.A) = 3
  /\ Len(s.b) = 2
  /\ Rows(s.Ab.matrix) = 2 /\ Cols(s.Ab.matrix) = 4
  /\ s.Ab.dims = <<3, 1>>

\* C9: the buffers of an instance are allocated once, by the first
\* linearize call that passes the activity check; from then on every call,
\* returning or throwing, leaves A 2x3, b of size 2 and Ab of 2 rows with
\* blocks 3 and 1; evaluateError never touches them.
C9_ScratchStep ==
  /\ \A i \in Instances :
       /\ IF Allocated(scratch'[i]) THEN ShapeOK(scratch'[i])
                                    ELSE scratch'[i] = EmptyScratch
       /\ Allocated(scratch[i]) => Allocated(scratch'[i])
       /\ (~Allocated(scratch[i]) /\ Allocated(scratch'[i])) <=>
            (last'.inst = i /\ Pos(last'.events, "alloc") > 0)
       /\ (~Allocated(scratch[i]) /\ last'.op = "linearize" /\ last'.inst = i
             /\ last'.isActive) => Allocated(scratch'[i])
  /\ last'.op = "evaluateError" => scratch' = scratch

\* C9: every step allocates at most once and keeps the shapes.
C9_ScratchAllocatedOnce == [][C9_ScratchStep]_vars

C9_Witness ==
  /\ Linearized
  /\ last.outcome = "throw"
  /\ Pos(last.events, "alloc") = 0
  /\ Allocated(scratch[last.inst])
  /\ scratch[last.inst].A # Z_2x3
  /\ scratch[last.inst].A[1][1] # RInt(-1)

----------------------------------------------------------------------------
(* Claims about clone, under SpecClone *)

\* C7: the clone equals the original, with the same camera, measurement,
\* key, noise model and flags, and its buffers are its own: a linearize call
\* on either instance leaves Ab, A and b of the other unchanged.
C7_CloneStep ==
  /\ factor'["copy"].exists =>
       /\ equals(factor'["copy"], factor'["orig"])
       /\ equals(factor'["orig"], factor'["copy"])
       /\ factor'["copy"].throwCheirality = factor'["orig"].throwCheirality
       /\ factor'["copy"].verboseCheirality = factor'["orig"].verboseCheirality
       /\ factor'["orig"] = factor["orig"]
  /\ last'.op = "linearize" =>
       \A j \in Instances \ {last'.inst} : scratch'[j] = scratch[j]

\* C7: every step keeps the clone equal to the original and the buffers of
\* the two instances apart.
C7_CloneIndependent == [][C7_CloneStep]_vars

C7_Witness ==
  /\ factor["orig"].exists /\ factor["copy"].exists
  /\ Linearized /\ last.inst = "copy" /\ last.outcome = "return"
  /\ ~last.result.isNull
  /\ Allocated(scratch["orig"]) /\ Allocated(scratch["copy"])
  /\ scratch["orig"] # scratch["copy"]
  /\ scratch["orig"].A # Z_2x3
  /\ scratch["orig"].A[1][1] # RInt(-1)

----------------------------------------------------------------------------
(* Claims about concurrent linearize calls, under SpecConc *)

\* what linearize computes from the point p alone
OwnA(f, p) ==
  IF f.noiseModel.isNull
    THEN project(f.camera, p).Dpoint
    ELSE MDivInt(project(f.camera, p).Dpoint, f.noiseModel.sigma)

Ownb(f, p) ==
  IF f.noiseModel.isNull
    THEN VSub(f.measured, project(f.camera, p).pixel)
    ELSE VDivInt(VSub(f.measured, project(f.camera, p).pixel), f.noiseModel.sigma)

Returned(t) ==
  /\ threads[t].pc = "done"
  /\ threads[t].outcome = "return"
  /\ ~threads[t].result.isNull

PointOf(t) == threads[t].x[factor[threads[t].inst].key]

\* C10: a linearize call that no other call on the same instance overlaps
\* (the calls are serialized, or the other thread works on the clone)
\* returns the A and b computed from its own point.
C10_UnracedCallsOwnResult ==
  \A t \in Threads :
    (Returned(t) /\ ~threads[t].raced) =>
      /\ threads[t].result.keys = <<factor[threads[t].inst].key>>
      /\ getA(threads[t].result) = OwnA(factor[threads[t].inst], PointOf(t))
      /\ getb(threads[t].result) = Ownb(factor[threads[t].inst], PointOf(t))

\* two overlapping calls on one instance with different points, one of
\* which returned the A or the b of the other's point
C10_Witness ==
  \E t \in Threads, u \in Threads :
    /\ t # u
    /\ Returned(t) /\ Returned(u)
    /\ threads[t].inst = threads[u].inst
    /\ threads[t].raced /\ threads[u].raced
    /\ PointOf(t) # PointOf(u)
    /\ \/ /\ getA(threads[t].result) = OwnA(factor[threads[u].inst], PointOf(u))
          /\ getA(threads[t].result) # OwnA(factor[threads[t].inst], PointOf(t))
          /\ getb(threads[t].result) = Ownb(factor[threads[t].inst], PointOf(t))
       \/ /\ getb(threads[t].result) = Ownb(factor[threads[u].inst], PointOf(u))
          /\ getb(threads[t].result) # Ownb(factor[threads[t].inst], PointOf(t))
          /\ getA(threads[t].result) = OwnA(factor[threads[t].inst], PointOf(t))

====
